---- MODULE Spec2Model ----
(***************************************************************************)
(* SmartGrammarAgent (src/src/smart_spelling_check/spell_check.py): the    *)
(* orchestrator run(text), its trace self.steps, and the Language-Model    *)
(* Client seen as a source of structured results or failures.              *)
(*                                                                         *)
(* A structured result (a Python dict parsed by json.loads) is a function  *)
(* whose DOMAIN is the set of keys present.  Python's None is the string   *)
(* None.  The content of a trace entry is the format string of the         *)
(* log_step call together with the value interpolated into it.             *)
(*                                                                         *)
(* One action is one stretch of run between two blocking client calls:     *)
(* it receives the result of the pending call, executes the code up to     *)
(* the next call (log_step calls included) and issues that call, or        *)
(* returns.  The variables calls, logged and target record history (the    *)
(* requests sent to the client, the entries each run appended, where each  *)
(* run was started); the code does not read them.                          *)
(***************************************************************************)
EXTENDS Integers, Sequences, FiniteSets, TLC

\* ---------------------------------------------------------------- bounds
MaxRuns == 2        \* run invocations considered
MaxErrs == 1        \* longest error list a detection result carries

Runs == 1..MaxRuns
Agents == {"agent1", "agent2"}          \* SmartGrammarAgent instances
Texts == {"t1", "t2"}                   \* input strings given to run
None == "None"                          \* Python None (JSON null)
Failures == {"TransportFailure", "MalformedResponse"}

\* ------------------------------------------------- dict and truthiness
EmptyDict == [k \in {} |-> TRUE]

\* dict.get(key, default)
Get(d, key, default) == IF key \in DOMAIN d THEN d[key] ELSE default

\* bool(d.get(key)) for a key that holds a JSON boolean when present
Truthy(d, key) == key \in DOMAIN d /\ d[key] = TRUE

\* a local variable assignment in the frame of run
Bind(frame, name, value) == (name :> value) @@ frame

\* ------------------------------------- results the client can hand back
ErrLists == UNION {[1..n -> {"e1"}] : n \in 0..MaxErrs}

AnalysisResults ==
    { [needs_reconstruction |-> TRUE,  needs_grammar_fix |-> TRUE,  needs_spell_check |-> FALSE],
      [needs_reconstruction |-> FALSE, needs_grammar_fix |-> TRUE,  needs_spell_check |-> FALSE],
      [needs_reconstruction |-> FALSE, needs_grammar_fix |-> FALSE, needs_spell_check |-> TRUE],
      [needs_grammar_fix |-> TRUE, needs_spell_check |-> TRUE] }

ReconstructionResults ==
    { [reconstructed |-> "p1", confidence |-> 90, reasoning |-> "r1"],
      [reconstructed |-> None, confidence |-> 90, reasoning |-> "r1"],
      EmptyDict }

VerificationResults ==
    { [is_correct |-> TRUE,  correct_phrase |-> "p1"],
      [is_correct |-> FALSE, correct_phrase |-> "p2"],
      [is_correct |-> FALSE] }

DetectionResults ==
    { [has_errors |-> TRUE, errors |-> e] : e \in ErrLists \ {<<>>} }
    \cup { [has_errors |-> FALSE, errors |-> <<>>], [has_errors |-> TRUE], EmptyDict }

FixResults ==
    { [corrected_text |-> "p3", changes |-> <<"c1">>], EmptyDict }

\* ------------------------------------------------------------- state
VARIABLES
    steps,      \* steps[a]: self.steps of agent a, the trace
    pc,         \* pc[r]: where run r is
    frame,      \* frame[r]: the local variables of run r (self, text, ...)
    outcome,    \* outcome[r]: the dict run r returned, EmptyDict before
    raised,     \* raised[r]: the exception run r propagated, "none" before
    calls,      \* calls[r]: the client calls of run r, with their replies
    logged,     \* logged[r]: the entries run r appended, in order
    target      \* target[r]: agent, text and trace length at the start

vars == <<steps, pc, frame, outcome, raised, calls, logged, target>>

Waiting == {"analyze", "reconstruct", "verify", "detect_a", "fix_a", "detect_c", "fix_c"}
Ended == {"returned", "aborted"}

\* ------------------------------------------------------------ log_step
\* self.steps.append({"step": step, "content": content})
log_step(list, step, fmt, arg) ==
    Append(list, [step |-> step, content |-> [fmt |-> fmt, arg |-> arg]])

\* json.dumps(result, indent=2): the serialised dict
json_dumps(d) == [json |-> d]

\* a variant that inserts at the front: self.steps.insert(0, ...)
LogsFront(r, entries) ==
    /\ steps' = [steps EXCEPT ![frame[r].self] = entries \o @]
    /\ logged' = [logged EXCEPT ![r] = @ \o entries]

\* the entries a stretch of run appends reach self.steps of its agent
Logs(r, entries) ==
    /\ steps' = [steps EXCEPT ![frame[r].self] = @ \o entries]
    /\ logged' = [logged EXCEPT ![r] = @ \o entries]

\* a client call as the history keeps it: the tool, its arguments, its reply
Request(tool, args) ==
    [tool |-> tool, args |-> args, reply |-> [kind |-> "pending", data |-> EmptyDict]]

\* the pending call of cs gets its reply, then the calls in next are issued
Exchange(cs, kind, data, next) ==
    [cs EXCEPT ![Len(cs)].reply = [kind |-> kind, data |-> data]] \o next

Init ==
    /\ steps = [a \in Agents |-> <<>>]
    /\ pc = [r \in Runs |-> "idle"]
    /\ frame = [r \in Runs |-> EmptyDict]
    /\ outcome = [r \in Runs |-> EmptyDict]
    /\ raised = [r \in Runs |-> "none"]
    /\ calls = [r \in Runs |-> <<>>]
    /\ logged = [r \in Runs |-> <<>>]
    /\ target = [r \in Runs |-> EmptyDict]

\* ------------------------------------------------ the code of run, by line
\* a variant that logs ANALYZE only once the analysis is back
ObserveEntriesLate(text) ==
    log_step(<<>>, "OBSERVE", "Input text: '{}'", text)

\* lines 176-179: the two entries logged before analyze_text is called
ObserveEntries(text) ==
    log_step(log_step(<<>>, "OBSERVE", "Input text: '{}'", text),
             "ANALYZE", "Determining if text needs reconstruction or just spell checking...", "")

\* a variant that also consults needs_grammar_fix
RouteGrammar(analysis) ==
    IF Truthy(analysis, "needs_reconstruction") \/ Truthy(analysis, "needs_grammar_fix")
    THEN "A" ELSE "C"

\* line 184: if analysis.get('needs_reconstruction')
Route(analysis) == IF Truthy(analysis, "needs_reconstruction") THEN "A" ELSE "C"

\* a variant without the default: reconstruction.get('reconstructed')
ReconstructedTextBare(reconstruction, text) == Get(reconstruction, "reconstructed", None)

\* lines 193, 220, 236: reconstruction.get('reconstructed', text)
ReconstructedText(reconstruction, text) == Get(reconstruction, "reconstructed", text)

\* a variant that does not log the decision
DecideEntriesSilent(analysis) ==
    LET seen == log_step(<<>>, "ANALYSIS_RESULT", "{}", json_dumps(analysis))
    IN  IF Route(analysis) = "A"
        THEN log_step(seen, "RECONSTRUCT", "Figuring out the intended meaning...", "")
        ELSE log_step(seen, "DETECT", "Looking for spelling errors...", "")

\* lines 181-190 and 245-248: the entries logged between the analysis and the next call
DecideEntries(analysis) ==
    LET seen == log_step(<<>>, "ANALYSIS_RESULT", "{}", json_dumps(analysis))
    IN  IF Route(analysis) = "A"
        THEN log_step(log_step(seen,
                 "DECIDE", "Text is scrambled/garbled - using SEMANTIC RECONSTRUCTION", ""),
                 "RECONSTRUCT", "Figuring out the intended meaning...", "")
        ELSE log_step(log_step(seen,
                 "DECIDE", "Text just needs SPELL CHECKING (simple errors)", ""),
                 "DETECT", "Looking for spelling errors...", "")

\* lines 213-214: the value of reconstructed_text after the verification
Overridden(verification, reconstructed_text) ==
    IF ~Truthy(verification, "is_correct")
    THEN Get(verification, "correct_phrase", reconstructed_text)
    ELSE reconstructed_text

\* a variant that announces the detection before it logs the verdict
VerifyEntriesSwapped(verification, reconstructed_text) ==
    LET first == log_step(<<>>, "VERIFY",
                          "Checking reconstructed text for remaining errors...", "")
    IN  IF ~Truthy(verification, "is_correct")
        THEN log_step(first, "CORRECTION", "Corrected reconstruction to: {}",
                      Overridden(verification, reconstructed_text))
        ELSE log_step(first, "VERIFIED", "Reconstruction verified as correct: {}",
                      Overridden(verification, reconstructed_text))

\* lines 213-217 and 221: the entries logged between the verification and detect_errors
VerifyEntries(verification, reconstructed_text) ==
    LET first ==
            IF ~Truthy(verification, "is_correct")
            THEN log_step(<<>>, "CORRECTION", "Corrected reconstruction to: {}",
                          Overridden(verification, reconstructed_text))
            ELSE log_step(<<>>, "VERIFIED", "Reconstruction verified as correct: {}",
                          Overridden(verification, reconstructed_text))
    IN  log_step(first, "VERIFY", "Checking reconstructed text for remaining errors...", "")

\* a variant without line 220: the override of the verification stays
RecomputedKept(f) == f

\* line 220: reconstructed_text = reconstruction.get('reconstructed', text)
Recomputed(f) ==
    Bind(f, "reconstructed_text", ReconstructedText(f.reconstruction, f.text))

\* a variant that hands fix_errors no error list
DetectedErrorsDropped(detection) == <<>>

\* lines 226 and 253: the error list handed to fix_errors
DetectedErrors(detection) == Get(detection, "errors", <<>>)

\* lines 233-241: the dict the reconstruction branch returns
OutcomeA(f, final_text) ==
    [original |-> f.text,
     method |-> "semantic_reconstruction",
     reconstructed |-> ReconstructedText(f.reconstruction, f.text),
     confidence |-> Get(f.reconstruction, "confidence", 0),
     reasoning |-> Get(f.reconstruction, "reasoning", ""),
     final_text |-> final_text,
     steps |-> [ref |-> f.self]]

\* a variant that returns the uncorrected text as final_text
OutcomeFixedOriginal(f, fixes) ==
    [original |-> f.text,
     method |-> "spell_check",
     has_errors |-> TRUE,
     errors |-> DetectedErrors(f.detection),
     corrected |-> Get(fixes, "corrected_text", f.text),
     changes |-> Get(fixes, "changes", <<>>),
     final_text |-> f.text,
     steps |-> [ref |-> f.self]]

\* lines 256-265: the dict the spell-check branch returns after a fix
OutcomeFixed(f, fixes) ==
    [original |-> f.text,
     method |-> "spell_check",
     has_errors |-> TRUE,
     errors |-> DetectedErrors(f.detection),
     corrected |-> Get(fixes, "corrected_text", f.text),
     changes |-> Get(fixes, "changes", <<>>),
     final_text |-> Get(fixes, "corrected_text", f.text),
     steps |-> [ref |-> f.self]]

\* a variant that reports a grammar path for a grammar-only analysis
OutcomeCleanGrammar(f) ==
    [original |-> f.text,
     method |-> IF Truthy(f.analysis, "needs_grammar_fix")
                THEN "grammar_correction" ELSE "spell_check",
     has_errors |-> FALSE,
     errors |-> <<>>,
     final_text |-> f.text,
     steps |-> [ref |-> f.self]]

\* a variant that returns the clean path without its text
OutcomeCleanBlank(f) ==
    [original |-> f.text,
     method |-> "spell_check",
     has_errors |-> FALSE,
     errors |-> <<>>,
     final_text |-> "",
     steps |-> [ref |-> f.self]]

\* lines 268-275: the dict the spell-check branch returns when nothing is wrong
OutcomeClean(f) ==
    [original |-> f.text,
     method |-> "spell_check",
     has_errors |-> FALSE,
     errors |-> <<>>,
     final_text |-> f.text,
     steps |-> [ref |-> f.self]]

\* a variant that swallows the exception and waits for the call again
AfterFailureSwallowed(p) == p

\* lines 172-275 hold no try/except: an exception of a call leaves run
AfterFailure(p) == "aborted"

\* ------------------------------------------------------------ actions
InFlight(r) == pc[r] \in Waiting

\* run(text) is entered on agent a: lines 172-180, up to the analyze_text call
Enter(r, a, text) ==
    /\ pc[r] = "idle"
    /\ IF r = 1 THEN TRUE ELSE pc[r - 1] # "idle"
    /\ frame' = [frame EXCEPT ![r] = [self |-> a, text |-> text]]
    /\ target' = [target EXCEPT ![r] = [self |-> a, text |-> text, base |-> Len(steps[a])]]
    /\ steps' = [steps EXCEPT ![a] = @ \o ObserveEntries(text)]
    /\ logged' = [logged EXCEPT ![r] = @ \o ObserveEntries(text)]
    /\ calls' = [calls EXCEPT ![r] = <<Request("analyze_text", <<text>>)>>]
    /\ pc' = [pc EXCEPT ![r] = "analyze"]
    /\ UNCHANGED <<outcome, raised>>

\* a caller invokes run while no other run is executing
Run(r, a, text) ==
    /\ \A q \in Runs : ~InFlight(q)
    /\ Enter(r, a, text)

\* a second caller invokes run while another run is blocked in a client call
RunConcurrently(r, a, text) ==
    /\ \E q \in Runs : InFlight(q)
    /\ Enter(r, a, text)

\* return of the outcome: the frame of run is gone
Return(r, result) ==
    /\ outcome' = [outcome EXCEPT ![r] = result]
    /\ frame' = [frame EXCEPT ![r] = EmptyDict]
    /\ pc' = [pc EXCEPT ![r] = "returned"]
    /\ UNCHANGED <<raised, target>>

\* lines 180-190 / 245-248: analyze_text returns, the branch is chosen
AnalyzeReturns(r, analysis) ==
    /\ pc[r] = "analyze"
    /\ LET f == frame[r] IN
       /\ frame' = [frame EXCEPT ![r] = Bind(f, "analysis", analysis)]
       /\ Logs(r, DecideEntries(analysis))
       /\ IF Route(analysis) = "A"
          THEN /\ calls' = [calls EXCEPT ![r] = Exchange(@, "ok", analysis,
                                <<Request("semantic_reconstruction", <<f.text>>)>>)]
               /\ pc' = [pc EXCEPT ![r] = "reconstruct"]
          ELSE /\ calls' = [calls EXCEPT ![r] = Exchange(@, "ok", analysis,
                                <<Request("detect_errors", <<f.text>>)>>)]
               /\ pc' = [pc EXCEPT ![r] = "detect_c"]
    /\ UNCHANGED <<outcome, raised, target>>

\* lines 189-211: semantic_reconstruction returns, the verification is asked for
ReconstructReturns(r, reconstruction) ==
    /\ pc[r] = "reconstruct"
    /\ LET f == frame[r]
           reconstructed_text == ReconstructedText(reconstruction, f.text)
       IN
       /\ frame' = [frame EXCEPT ![r] =
              Bind(Bind(f, "reconstruction", reconstruction),
                   "reconstructed_text", reconstructed_text)]
       /\ Logs(r, log_step(<<>>, "RECONSTRUCT_RESULT", "{}", json_dumps(reconstruction)))
       /\ calls' = [calls EXCEPT ![r] = Exchange(@, "ok", reconstruction,
                        <<Request("verify", <<f.text, reconstructed_text>>)>>)]
    /\ pc' = [pc EXCEPT ![r] = "verify"]
    /\ UNCHANGED <<outcome, raised, target>>

\* lines 211-222: the verification returns, detect_errors is called
VerifyReturns(r, verification) ==
    /\ pc[r] = "verify"
    /\ LET f == frame[r]
           g == Recomputed(Bind(Bind(f, "verification", verification),
                    "reconstructed_text", Overridden(verification, f.reconstructed_text)))
       IN
       /\ frame' = [frame EXCEPT ![r] = g]
       /\ Logs(r, VerifyEntries(verification, f.reconstructed_text))
       /\ calls' = [calls EXCEPT ![r] = Exchange(@, "ok", verification,
                        <<Request("detect_errors", <<g.reconstructed_text>>)>>)]
    /\ pc' = [pc EXCEPT ![r] = "detect_a"]
    /\ UNCHANGED <<outcome, raised, target>>

\* lines 222-241: detect_errors returns in the reconstruction branch
DetectReturnsA(r, detection) ==
    /\ pc[r] = "detect_a"
    /\ LET f == frame[r] IN
       IF Truthy(detection, "has_errors")
       THEN /\ frame' = [frame EXCEPT ![r] = Bind(f, "detection", detection)]
            /\ Logs(r, log_step(<<>>, "FIX", "Fixing remaining spelling errors...", ""))
            /\ calls' = [calls EXCEPT ![r] = Exchange(@, "ok", detection,
                   <<Request("fix_errors", <<f.reconstructed_text, DetectedErrors(detection)>>)>>)]
            /\ pc' = [pc EXCEPT ![r] = "fix_a"]
            /\ UNCHANGED <<outcome, raised, target>>
       ELSE /\ Logs(r, log_step(<<>>, "COMPLETE", "Final result: '{}'", f.reconstructed_text))
            /\ calls' = [calls EXCEPT ![r] = Exchange(@, "ok", detection, <<>>)]
            /\ Return(r, OutcomeA(f, f.reconstructed_text))

\* lines 226-241: fix_errors returns in the reconstruction branch
FixReturnsA(r, fixes) ==
    /\ pc[r] = "fix_a"
    /\ LET f == frame[r]
           final_text == Get(fixes, "corrected_text", f.reconstructed_text)
       IN
       /\ Logs(r, log_step(<<>>, "COMPLETE", "Final result: '{}'", final_text))
       /\ calls' = [calls EXCEPT ![r] = Exchange(@, "ok", fixes, <<>>)]
       /\ Return(r, OutcomeA(f, final_text))

\* lines 248-253 and 266-275: detect_errors returns in the spell-check branch
DetectReturnsC(r, detection) ==
    /\ pc[r] = "detect_c"
    /\ LET f == frame[r]
           seen == log_step(<<>>, "DETECT_RESULT", "{}", json_dumps(detection))
       IN
       IF Truthy(detection, "has_errors")
       THEN /\ frame' = [frame EXCEPT ![r] = Bind(f, "detection", detection)]
            /\ Logs(r, log_step(seen, "FIX", "Fixing spelling errors...", ""))
            /\ calls' = [calls EXCEPT ![r] = Exchange(@, "ok", detection,
                   <<Request("fix_errors", <<f.text, DetectedErrors(detection)>>)>>)]
            /\ pc' = [pc EXCEPT ![r] = "fix_c"]
            /\ UNCHANGED <<outcome, raised, target>>
       ELSE /\ Logs(r, log_step(seen, "COMPLETE", "No errors found!", ""))
            /\ calls' = [calls EXCEPT ![r] = Exchange(@, "ok", detection, <<>>)]
            /\ Return(r, OutcomeClean(f))

\* lines 253-265: fix_errors returns in the spell-check branch
FixReturnsC(r, fixes) ==
    /\ pc[r] = "fix_c"
    /\ LET f == frame[r] IN
       /\ Logs(r, log_step(<<>>, "FIX_RESULT", "{}", json_dumps(fixes)))
       /\ calls' = [calls EXCEPT ![r] = Exchange(@, "ok", fixes, <<>>)]
       /\ Return(r, OutcomeFixed(f, fixes))

\* llm.call or json.loads raises inside the pending call: the exception leaves run
CallFails(r, kind) ==
    /\ pc[r] \in Waiting
    /\ calls' = [calls EXCEPT ![r] = Exchange(@, kind, EmptyDict, <<>>)]
    /\ raised' = [raised EXCEPT ![r] = kind]
    /\ pc' = [pc EXCEPT ![r] = AfterFailure(pc[r])]
    /\ frame' = [frame EXCEPT ![r] = IF AfterFailure(pc[r]) = "aborted" THEN EmptyDict ELSE @]
    /\ UNCHANGED <<steps, logged, outcome, target>>

\* the pending call of run r ends: with a result drawn from the given sets, or a failure
Returns(r, analyses, reconstructions, verifications, detections, fixings, failures) ==
    \/ \E d \in analyses : AnalyzeReturns(r, d)
    \/ \E d \in reconstructions : ReconstructReturns(r, d)
    \/ \E d \in verifications : VerifyReturns(r, d)
    \/ \E d \in detections : DetectReturnsA(r, d)
    \/ \E d \in fixings : FixReturnsA(r, d)
    \/ \E d \in detections : DetectReturnsC(r, d)
    \/ \E d \in fixings : FixReturnsC(r, d)
    \/ \E kind \in failures : CallFails(r, kind)

\* runs called one after the other, on a new agent or on one used before
Next ==
    \E r \in Runs :
        \/ \E a \in Agents, text \in Texts : Run(r, a, text)
        \/ Returns(r, AnalysisResults, ReconstructionResults, VerificationResults,
                   DetectionResults, FixResults, Failures)

Spec == Init /\ [][Next]_vars

\* the same runs, with every pending client call answered in the end: by a
\* result or by a failure
SpecLive ==
    /\ Init /\ [][Next]_vars
    /\ \A r \in Runs :
           WF_vars(Returns(r, AnalysisResults, ReconstructionResults, VerificationResults,
                           DetectionResults, FixResults, Failures))

\* runs called by several threads: a run may start while another is blocked in
\* a client call; the results are drawn from a part of each set
ThreadAnalyses == {d \in AnalysisResults : "needs_reconstruction" \in DOMAIN d}
ThreadReconstructions == {d \in ReconstructionResults : Get(d, "reconstructed", None) # None}
ThreadVerifications == {d \in VerificationResults : "correct_phrase" \in DOMAIN d}
ThreadDetections == {d \in DetectionResults : "errors" \in DOMAIN d}
ThreadFixes == {d \in FixResults : "corrected_text" \in DOMAIN d}
ThreadFailures == {"TransportFailure"}

NextThreads ==
    \E r \in Runs :
        \/ \E a \in Agents, text \in Texts : Run(r, a, text)
        \/ \E a \in Agents, text \in Texts : RunConcurrently(r, a, text)
        \/ Returns(r, ThreadAnalyses, ThreadReconstructions, ThreadVerifications,
                   ThreadDetections, ThreadFixes, ThreadFailures)

SpecThreads == Init /\ [][NextThreads]_vars

\* ------------------------------------------------- reading the history
StepNames(t) == [i \in 1..Len(t) |-> t[i].step]

CountOf(t, names) == Cardinality({i \in 1..Len(t) : t[i].step \in names})

\* run r returns in this step
ReturnsNow(r) == pc[r] # "returned" /\ pc'[r] = "returned"

\* the i-th client call of run r has returned a structured result
Replied(r, i) == i <= Len(calls[r]) /\ calls[r][i].reply.kind = "ok"

\* the structured result of the i-th client call of run r
Result(r, i) == calls[r][i].reply.data

\* the tools run r has called, in order
Tools(r) == [i \in 1..Len(calls[r]) |-> calls[r][i].tool]

\* ------------------------------------------------------------------ C1
\* C1 (as claimed): the trace a run returns has exactly one OBSERVE entry,
\* its first, and exactly one COMPLETE entry, its last, on every completing path.
C1_TraceComplete ==
    [][\A r \in Runs : ReturnsNow(r) =>
          LET t == steps'[outcome'[r].steps.ref] IN
          /\ CountOf(t, {"OBSERVE"}) = 1 /\ t[1].step = "OBSERVE"
          /\ CountOf(t, {"COMPLETE"}) = 1 /\ t[Len(t)].step = "COMPLETE"]_vars

\* ------------------------------------------------------------------ C2
\* C2 (as claimed): when the client call of the analysis fails, the trace of
\* the orchestrator holds the single OBSERVE entry at that moment.
C2_OnlyObserve ==
    [][\A r \in Runs : (pc[r] = "analyze" /\ pc'[r] = "aborted") =>
          StepNames(steps'[target[r].self]) = <<"OBSERVE">>]_vars

\* C2 (amended): when the client call of the analysis fails, run aborts
\* without an outcome, the failure adds nothing to the trace, and the entries
\* that run has appended are exactly OBSERVE followed by ANALYZE.
C2_ObserveAnalyze ==
    [][\A r \in Runs : (pc[r] = "analyze" /\ raised'[r] # "none") =>
          /\ pc'[r] = "aborted"
          /\ outcome'[r] = EmptyDict
          /\ steps' = steps
          /\ StepNames(logged'[r]) = <<"OBSERVE", "ANALYZE">>
          /\ SubSeq(steps'[target[r].self], target[r].base + 1,
                    Len(steps'[target[r].self])) = logged'[r]]_vars

C2_Witness ==
    \E r \in Runs :
        /\ pc[r] = "aborted"
        /\ Len(calls[r]) = 1
        /\ calls[r][1].reply.kind \in Failures
        /\ raised[r] = calls[r][1].reply.kind

C4_ReconstructedNotNull ==
    \A r \in Runs :
        (pc[r] = "returned" /\ Truthy(Result(r, 1), "needs_reconstruction"))
        => /\ outcome[r].method = "semantic_reconstruction"
           /\ "reconstructed" \in DOMAIN outcome[r]
           /\ outcome[r].reconstructed # None

\* ------------------------------------------------------------------ C5
\* the candidate of run r: what ReconstructPhrase handed back, by its reply
Candidate(r) ==
    IF "reconstructed" \in DOMAIN Result(r, 2) THEN Result(r, 2).reconstructed
    ELSE target[r].text

\* run r took the reconstruction branch and its verification said is_correct false
Rejected(r) ==
    /\ Replied(r, 3)
    /\ calls[r][3].tool = "verify"
    /\ "is_correct" \in DOMAIN Result(r, 3)
    /\ Result(r, 3).is_correct = FALSE

\* C5: in the reconstruction branch, when the verification says is_correct
\* false, the trace gets a CORRECTION entry, yet the text passed to
\* DetectSpellingErrors and the reconstructed field of the outcome are the
\* ReconstructPhrase output, and so is final_text when no error is detected.
C5_OverrideNotApplied ==
    \A r \in Runs : Rejected(r) =>
        /\ CountOf(logged[r], {"CORRECTION"}) = 1
        /\ CountOf(logged[r], {"VERIFIED"}) = 0
        /\ calls[r][4].tool = "detect_errors"
        /\ calls[r][4].args = <<Candidate(r)>>
        /\ pc[r] = "returned" => outcome[r].reconstructed = Candidate(r)
        /\ (pc[r] = "returned" /\ ~Truthy(Result(r, 4), "has_errors"))
               => outcome[r].final_text = Candidate(r)

C5_Witness ==
    \E r \in Runs :
        /\ Rejected(r)
        /\ pc[r] = "returned"
        /\ "correct_phrase" \in DOMAIN Result(r, 3)
        /\ Result(r, 3).correct_phrase # Candidate(r)
        /\ \E i \in 1..Len(logged[r]) :
               /\ logged[r][i].step = "CORRECTION"
               /\ logged[r][i].content.arg = Result(r, 3).correct_phrase
        /\ "has_errors" \in DOMAIN Result(r, 4)
        /\ Result(r, 4).has_errors = FALSE
        /\ outcome[r].final_text = Candidate(r)

\* ------------------------------------------------------------------ C6
\* the entries that announce or report the call of a tool
StepsOf(tool) ==
    CASE tool = "analyze_text" -> {"ANALYZE", "ANALYSIS_RESULT"}
      [] tool = "semantic_reconstruction" -> {"RECONSTRUCT", "RECONSTRUCT_RESULT"}
      [] tool = "verify" -> {"CORRECTION", "VERIFIED"}
      [] tool = "detect_errors" -> {"VERIFY", "DETECT", "DETECT_RESULT"}
      [] tool = "fix_errors" -> {"FIX", "FIX_RESULT"}

\* run r took the reconstruction branch
BranchA(r) == Len(calls[r]) >= 2 /\ calls[r][2].tool = "semantic_reconstruction"

\* C6 (as claimed): every tool invocation and the branch decision append
\* exactly one entry each, in place before the next call or the return.
C6_OneEntryEach ==
    \A r \in Runs :
        /\ \A i \in 1..Len(calls[r]) :
               Replied(r, i) => CountOf(logged[r], StepsOf(calls[r][i].tool)) = 1
        /\ Replied(r, 1) => CountOf(logged[r], {"DECIDE"}) = 1

\* C6 (amended): every tool invocation that returns appends one or two
\* entries (AnalyzeText and ReconstructPhrase two, VerifyReconstruction one,
\* DetectSpellingErrors and FixSpellingErrors two in the spell-check branch
\* and one in the reconstruction branch), the branch decision appends exactly
\* one DECIDE entry, and these entries are in the trace by the time the next
\* call is pending or run has returned.
C6_OneOrTwoEntries ==
    \A r \in Runs :
        /\ \A i \in 1..Len(calls[r]) :
               Replied(r, i) =>
                   CountOf(logged[r], StepsOf(calls[r][i].tool)) =
                       IF calls[r][i].tool \in {"analyze_text", "semantic_reconstruction"} THEN 2
                       ELSE IF calls[r][i].tool = "verify" THEN 1
                       ELSE IF BranchA(r) THEN 1 ELSE 2
        /\ CountOf(logged[r], {"DECIDE"}) = IF Replied(r, 1) THEN 1 ELSE 0
        /\ pc[r] \in Waiting => calls[r][Len(calls[r])].reply.kind = "pending"

C6_Witness ==
    \E r \in Runs :
        /\ pc[r] = "returned"
        /\ Tools(r) = <<"analyze_text", "semantic_reconstruction", "verify",
                        "detect_errors", "fix_errors">>
        /\ Len(logged[r]) = 10

\* ------------------------------------------------------------------ C7
\* C7 (as claimed): the trace a run returns holds only the entries appended
\* during that run, also on an agent that ran before.
C7_NothingRetained ==
    [][\A r \in Runs : ReturnsNow(r) =>
          steps'[outcome'[r].steps.ref] = logged'[r]]_vars

\* ------------------------------------------------------------------ C8
\* C8 (as claimed): with runs executing concurrently, a run that started on
\* an empty trace returns exactly its own entries, in its own order.
C8_NoInterleaving ==
    [][\A r \in Runs : (ReturnsNow(r) /\ target[r].base = 0) =>
          steps'[outcome'[r].steps.ref] = logged'[r]]_vars

\* ------------------------------------------------------------------ C9
\* C9: a client call that fails, at any step, is the last call of its run:
\* the run is aborted with that failure, returns no outcome, and neither
\* repeats the call nor makes another.
C9_FailureAborts ==
    \A r \in Runs :
        /\ \A i \in 1..Len(calls[r]) :
               calls[r][i].reply.kind \in Failures =>
                   /\ i = Len(calls[r])
                   /\ pc[r] = "aborted"
                   /\ raised[r] = calls[r][i].reply.kind
                   /\ outcome[r] = EmptyDict
        /\ raised[r] # "none" =>
               /\ calls[r][Len(calls[r])].reply.kind = raised[r]
               /\ pc[r] = "aborted"
        /\ pc[r] = "returned" =>
               \A i \in 1..Len(calls[r]) : calls[r][i].reply.kind = "ok"

C9_Witness ==
    \E r \in Runs :
        /\ pc[r] = "aborted"
        /\ Len(calls[r]) = 5
        /\ calls[r][5].reply.kind = "MalformedResponse"
        /\ outcome[r] = EmptyDict

\* ----------------------------------------------------------------- C10
\* detection i of run r returned has_errors false
NoErrors(r, i) ==
    /\ Replied(r, i)
    /\ calls[r][i].tool = "detect_errors"
    /\ "has_errors" \in DOMAIN Result(r, i)
    /\ Result(r, i).has_errors = FALSE

\* C10: when DetectSpellingErrors reports has_errors false, in either
\* branch, FixSpellingErrors is not called and run returns with final_text
\* equal to the text that was passed to DetectSpellingErrors.
C10_NoErrorPath ==
    \A r \in Runs : \A i \in 1..Len(calls[r]) :
        NoErrors(r, i) =>
            /\ i = Len(calls[r])
            /\ pc[r] = "returned"
            /\ outcome[r].final_text = calls[r][i].args[1]
            /\ calls[r][i].args[1] = IF BranchA(r) THEN Candidate(r) ELSE target[r].text

C10_Witness ==
    \E r, q \in Runs :
        /\ NoErrors(r, 4) /\ BranchA(r)
        /\ outcome[r].final_text = "p1" /\ target[r].text # "p1"
        /\ NoErrors(q, 2) /\ ~BranchA(q)
        /\ outcome[q].final_text = target[q].text

\* ----------------------------------------------------------------- C11
IsPrefix(s, t) == Len(s) <= Len(t) /\ s = SubSeq(t, 1, Len(s))

\* the error list of a detection result, as fix_errors is to receive it
ErrorsOf(detection) ==
    IF "errors" \in DOMAIN detection THEN detection.errors ELSE <<>>

\* C11: the client calls of a run come in the order Analyze, then Reconstruct,
\* Verify, Detect, Fix or Detect, Fix; a call is issued only when every
\* earlier call has returned its result; Verify receives the candidate that
\* Reconstruct returned; Fix follows a Detect that returned has_errors true
\* and receives the text and the error list of that Detect.
C11_SequentialChain ==
    \A r \in Runs :
        /\ \/ IsPrefix(Tools(r), <<"analyze_text", "semantic_reconstruction", "verify",
                                   "detect_errors", "fix_errors">>)
           \/ IsPrefix(Tools(r), <<"analyze_text", "detect_errors", "fix_errors">>)
        /\ \A i \in 1..Len(calls[r]) : i < Len(calls[r]) => Replied(r, i)
        /\ \A i \in 1..Len(calls[r]) :
               /\ calls[r][i].tool \in {"analyze_text", "semantic_reconstruction"}
                      => calls[r][i].args = <<target[r].text>>
               /\ calls[r][i].tool = "verify"
                      => calls[r][i].args = <<target[r].text, Candidate(r)>>
               /\ calls[r][i].tool = "fix_errors"
                      => /\ calls[r][i - 1].tool = "detect_errors"
                         /\ Truthy(Result(r, i - 1), "has_errors")
                         /\ calls[r][i].args =
                                <<calls[r][i - 1].args[1], ErrorsOf(Result(r, i - 1))>>

C11_Witness ==
    \E r \in Runs :
        /\ pc[r] = "returned"
        /\ Len(calls[r]) = 5
        /\ calls[r][3].args = <<target[r].text, "p1">>
        /\ calls[r][5].args = <<"p1", <<"e1">> >>

Lacks(r, i, tool, field) ==
    /\ Replied(r, i)
    /\ calls[r][i].tool = tool
    /\ field \notin DOMAIN Result(r, i)

\* C13: a mapping that lacks an expected field never aborts the run; a
\* missing reconstructed counts as the input text, a missing confidence as 0,
\* a missing reasoning as the empty string, a missing errors list as the
\* empty list, a missing corrected_text as the text passed to
\* FixSpellingErrors, a missing needs_reconstruction or has_errors as false.
C13_MissingFieldDefaults ==
    \A r \in Runs :
        /\ pc[r] = "aborted" => calls[r][Len(calls[r])].reply.kind \in Failures
        /\ Lacks(r, 1, "analyze_text", "needs_reconstruction")
               => calls[r][2].tool = "detect_errors"
        /\ Lacks(r, 2, "semantic_reconstruction", "reconstructed")
               => /\ calls[r][3].args = <<target[r].text, target[r].text>>
                  /\ Len(calls[r]) >= 4 => calls[r][4].args = <<target[r].text>>
                  /\ pc[r] = "returned" => outcome[r].reconstructed = target[r].text
        /\ (pc[r] = "returned" /\ Lacks(r, 2, "semantic_reconstruction", "confidence"))
               => outcome[r].confidence = 0
        /\ (pc[r] = "returned" /\ Lacks(r, 2, "semantic_reconstruction", "reasoning"))
               => outcome[r].reasoning = ""
        /\ \A i \in 1..Len(calls[r]) :
               /\ (Lacks(r, i, "detect_errors", "errors") /\ Truthy(Result(r, i), "has_errors"))
                      => /\ calls[r][i + 1].tool = "fix_errors"
                         /\ calls[r][i + 1].args[2] = <<>>
                         /\ (pc[r] = "returned" /\ ~BranchA(r)) => outcome[r].errors = <<>>
               /\ Lacks(r, i, "detect_errors", "has_errors")
                      => /\ i = Len(calls[r])
                         /\ pc[r] = "returned"
                         /\ outcome[r].final_text = calls[r][i].args[1]
                         /\ ~BranchA(r) => outcome[r].has_errors = FALSE
               /\ Lacks(r, i, "fix_errors", "corrected_text")
                      => /\ pc[r] = "returned"
                         /\ outcome[r].final_text = calls[r][i].args[1]

C13_Witness ==
    \E r \in Runs :
        /\ pc[r] = "returned"
        /\ Len(calls[r]) = 5
        /\ Result(r, 2) = EmptyDict
        /\ Result(r, 4) = [has_errors |-> TRUE]
        /\ Result(r, 5) = EmptyDict
        /\ outcome[r].reconstructed = target[r].text
        /\ outcome[r].confidence = 0
        /\ outcome[r].final_text = target[r].text

\* ----------------------------------------------------------------- C14
\* the entries run r logs in this step
NewlyLogged(r) == SubSeq(logged'[r], Len(logged[r]) + 1, Len(logged'[r]))

\* C14: the trace of an agent only grows at its end: every step of every
\* run, first or later, leaves the entries already there as they are and in
\* place, and adds behind them the (step, content) pairs logged in that step.
C14_AppendOnly ==
    [][\A a \in Agents :
          /\ IsPrefix(steps[a], steps'[a])
          /\ \A i \in 1..Len(steps'[a]) : DOMAIN steps'[a][i] = {"step", "content"}
          /\ \/ steps'[a] = steps[a]
             \/ \E r \in Runs :
                    /\ target'[r] # EmptyDict
                    /\ target'[r].self = a
                    /\ steps'[a] = steps[a] \o NewlyLogged(r)]_vars

C14_Witness ==
    \E r, q \in Runs :
        /\ r # q
        /\ pc[r] \in Ended /\ pc[q] \in Ended
        /\ target[r].self = target[q].self
        /\ Len(logged[r]) >= 2 /\ Len(logged[q]) >= 2
        /\ steps[target[r].self] = logged[r] \o logged[q]

\* ----------------------------------------------------------------- C15
\* the step names a completed run may leave, given its client calls cs
Admissible(cs) ==
    LET head == <<"OBSERVE", "ANALYZE", "ANALYSIS_RESULT", "DECIDE">>
        detected == \E i \in 1..Len(cs) :
                        /\ cs[i].tool = "detect_errors"
                        /\ Truthy(cs[i].reply.data, "has_errors")
    IN  IF cs[2].tool = "semantic_reconstruction"
        THEN { head \o <<"RECONSTRUCT", "RECONSTRUCT_RESULT", v, "VERIFY">>
                    \o (IF detected THEN <<"FIX">> ELSE <<>>) \o <<"COMPLETE">>
               : v \in {"CORRECTION", "VERIFIED"} }
        ELSE { head \o <<"DETECT", "DETECT_RESULT">>
                    \o (IF detected THEN <<"FIX", "FIX_RESULT">> ELSE <<"COMPLETE">>) }

\* C15: the trace a run returns on a fresh orchestrator names, in order,
\* OBSERVE, ANALYZE, ANALYSIS_RESULT, DECIDE and then either RECONSTRUCT,
\* RECONSTRUCT_RESULT, one of CORRECTION and VERIFIED, VERIFY, FIX exactly
\* when errors were detected, COMPLETE; or DETECT, DETECT_RESULT and FIX,
\* FIX_RESULT when errors were detected, COMPLETE when not.
C15_StepSequences ==
    [][\A r \in Runs : (ReturnsNow(r) /\ target[r].base = 0) =>
          StepNames(steps'[target[r].self]) \in Admissible(calls'[r])]_vars

C15_Witness ==
    \E r \in Runs :
        /\ pc[r] = "returned"
        /\ target[r].base = 0
        /\ StepNames(steps[target[r].self]) =
               <<"OBSERVE", "ANALYZE", "ANALYSIS_RESULT", "DECIDE", "RECONSTRUCT",
                 "RECONSTRUCT_RESULT", "CORRECTION", "VERIFY", "FIX", "COMPLETE">>

\* ----------------------------------------------------------------- C16
\* detection i of run r returned has_errors true
HasErrors(r, i) ==
    /\ Replied(r, i)
    /\ calls[r][i].tool = "detect_errors"
    /\ Truthy(Result(r, i), "has_errors")

\* C16: when DetectSpellingErrors reports has_errors true, FixSpellingErrors
\* is called once, next, with the text that was checked (the reconstructed
\* text in the reconstruction branch) and the detected error list; a run that
\* then returns has the corrected_text of the fix as final_text and, in the
\* spell-check branch, has_errors true, the detected errors, the changes of
\* the fix, and corrected equal to final_text.
C16_FixApplied ==
    \A r \in Runs : \A i \in 1..Len(calls[r]) :
        HasErrors(r, i) =>
            /\ Len(calls[r]) = i + 1
            /\ calls[r][i + 1].tool = "fix_errors"
            /\ Cardinality({j \in 1..Len(calls[r]) : calls[r][j].tool = "fix_errors"}) = 1
            /\ calls[r][i + 1].args = <<calls[r][i].args[1], ErrorsOf(Result(r, i))>>
            /\ calls[r][i].args[1] = IF BranchA(r) THEN Candidate(r) ELSE target[r].text
            /\ pc[r] = "returned" =>
                   LET fixes == Result(r, i + 1) IN
                   /\ outcome[r].final_text =
                          IF "corrected_text" \in DOMAIN fixes THEN fixes.corrected_text
                          ELSE calls[r][i + 1].args[1]
                   /\ ~BranchA(r) =>
                          /\ outcome[r].has_errors = TRUE
                          /\ outcome[r].errors = ErrorsOf(Result(r, i))
                          /\ outcome[r].changes =
                                 IF "changes" \in DOMAIN fixes THEN fixes.changes ELSE <<>>
                          /\ outcome[r].corrected = outcome[r].final_text

C16_Witness ==
    \E r, q \in Runs :
        /\ HasErrors(r, 4) /\ pc[r] = "returned"
        /\ calls[r][5].args = <<"p1", <<"e1">> >>
        /\ outcome[r].final_text = "p3"
        /\ HasErrors(q, 2) /\ pc[q] = "returned"
        /\ outcome[q].errors = <<"e1">>
        /\ outcome[q].changes = <<"c1">>
        /\ outcome[q].final_text = "p3"

\* ----------------------------------------------------------------- C17
\* C17: with every client call answered in the end, a run that has started
\* ends, returned or aborted; it calls no tool twice, and makes at most 5
\* client calls in the reconstruction branch and at most 3 otherwise.
C17_Terminates ==
    /\ \A r \in Runs : (pc[r] \in Waiting) ~> (pc[r] \in Ended)
    /\ [](\A r \in Runs :
             /\ Len(calls[r]) <= IF BranchA(r) THEN 5 ELSE 3
             /\ \A i, j \in 1..Len(calls[r]) :
                    i # j => calls[r][i].tool # calls[r][j].tool)

C17_Witness ==
    \E r, q \in Runs :
        /\ pc[r] = "returned" /\ BranchA(r) /\ Len(calls[r]) = 5
        /\ pc[q] = "aborted" /\ ~BranchA(q) /\ Len(calls[q]) = 3

\* ----------------------------------------------------------------- C18
\* C18 (as claimed): once run has returned, its outcome stays as it is,
\* the trace held in the steps field included, whatever is done with the
\* orchestrator afterwards; original is the input text of that run.
C18_OutcomeFrozen ==
    [][\A r \in Runs : pc[r] = "returned" =>
          /\ outcome'[r] = outcome[r]
          /\ outcome[r].original = target[r].text
          /\ steps'[outcome[r].steps.ref] = steps[outcome[r].steps.ref]]_vars

TypeOK ==
    /\ \A r \in Runs : pc[r] \in {"idle"} \cup Waiting \cup Ended
    /\ \A r \in Runs : Len(calls[r]) <= 5
====
